---- MODULE Spec2Model ----
(***************************************************************************)
(* Model of downloads-generation/data_mass_spec_benchmark/run_predictors.py *)
(* (mhcflurry): the block finder blocks_of_ones, the column store          *)
(* (manifest, per-column files, load_results) and the run() pipeline:      *)
(* reuse load, work partitioning, task packing, result merge and flush.    *)
(*                                                                         *)
(* Matrices and sequences are indexed from 0, as in the source.            *)
(***************************************************************************)
EXTENDS Integers, Sequences, FiniteSets, TLC

VARIABLES
    \* ---- blocks_of_ones(arr) ----
    arr_in,     \* the matrix passed to blocks_of_ones
    arr,        \* the working copy (arr = arr.copy())
    blocks,     \* the list of blocks found so far
    last_block, \* the block selected by the latest loop iteration
    bpc,        \* "idle", "loop", "returned" or "AssertionError"
    \* ---- run(argv) ----
    pc,         \* position of run(): "start", ..., "done", "aborted"
    err,        \* the exception that left run(), "" if none
    input_rows, \* the peptide column of the input CSV
    args,       \* parsed arguments: predictor, alleles, chunk_size, reuse,
                \* num_jobs
    peptides,   \* the unique valid peptides, in row order
    result_df,  \* the ResultMatrix
    out_dir,    \* the directory args.out
    loaded,     \* <<>> or <<[ok, df]>>: what load_results(args.out) gave
    reuse_left, \* entries of args.reuse_predictions not yet visited
    work_items, \* the list work_items
    tasks,      \* the list tasks; tasks[t] is its work_item_dicts
    pending,    \* tasks whose result list the executor has not yet yielded
    updates,    \* the (work_item_num, col, predictions) of the current
                \* worker_results that are not yet merged
    now,        \* time.time()
    last_write_time_per_column,
    \* ---- history, read only by the properties ----
    reused_df,  \* result_df when partitioning started
    merged,     \* the (peptide, col) cells the merge loop has assigned
    out_of_order, \* some result list arrived while an earlier task was pending
    flush_log,  \* the columns whose file, written by a periodic flush, is
                \* older than the column in memory
    flush_count, \* the number of periodic flushes of each column flushed so far
    failed      \* the task whose execution raised, 0 if none

blocks_vars == <<arr_in, arr, blocks, last_block, bpc>>
setup_vars == <<pc, err, input_rows, args, peptides, result_df, out_dir, loaded>>
sched_vars == <<reuse_left, work_items, tasks, pending, updates, now,
                last_write_time_per_column>>
hist_vars == <<reused_df, merged, out_of_order, flush_log, flush_count, failed>>
run_vars == <<setup_vars, sched_vars, hist_vars>>
vars == <<blocks_vars, run_vars>>

\* ---------------------------------------------------------------------
\* Bounds of the model
\* ---------------------------------------------------------------------
MaxRows == 3
MaxCols == 3
\* Shape of the matrices of the calls whose termination is checked.
MaxCallRows == 2
MaxCallCols == 3
MaxStoreRows == 2
MaxPeptides == 2
MaxFreshPeptides == 3
MaxItems == 4
MaxItemPeptides == 4
MaxPackChunk == 5
MaxChunkSize == 3
MaxReuseDirs == 2
MaxTicks == 1
\* Columns (alleles times kinds) of a run that reuses predictions.
MaxReuseColumns == 3
StartTime == 1000

\* The flush interval of line 365, in seconds.
FlushInterval == 180

\* ---------------------------------------------------------------------
\* Binary matrices: [shape |-> <<rows, cols>>, a |-> [<<i, j>> -> 0..1]]
\* ---------------------------------------------------------------------
NRows(m) == m.shape[1]
NCols(m) == m.shape[2]
RowIdx(m) == 0 .. (NRows(m) - 1)
ColIdx(m) == 0 .. (NCols(m) - 1)
Cells(m) == RowIdx(m) \X ColIdx(m)

Matrices(nr, nc) ==
    { [shape |-> <<nr, nc>>, a |-> f] :
        f \in [ (0 .. (nr - 1)) \X (0 .. (nc - 1)) -> {0, 1} ] }

TrueCells(m) == { ij \in Cells(m) : m.a[ij] = 1 }

\* arr.sum()
ArrSum(m) == Cardinality(TrueCells(m))

SetMin(S) == CHOOSE x \in S : \A y \in S : x <= y

\* arr.argmax() on the flattened (row-major) matrix: the first index of
\* the maximum; used only while arr.sum() > 0, where the maximum is 1.
FlatArgmax(m) ==
    IF TrueCells(m) = {} THEN 0
    ELSE SetMin({ ij[1] * NCols(m) + ij[2] : ij \in TrueCells(m) })

\* numpy.unravel_index(k, arr.shape)
UnravelIndex(k, m) == <<k \div NCols(m), k % NCols(m)>>

\* numpy.argmax(arr[x1:, y1] == 0): the first offset d with
\* arr[x1 + d, y1] == 0, and 0 when the slice holds no zero.
ArgmaxZeroBelow(m, x1, y1) ==
    LET zeros == { d \in 0 .. (NRows(m) - 1 - x1) : m.a[<<x1 + d, y1>>] = 0 }
    IN  IF zeros = {} THEN 0 ELSE SetMin(zeros)

\* (arr[r1 : r2 + 1, i] == 1).all()
ColAllOnes(m, r1, r2, i) == \A r \in r1 .. r2 : m.a[<<r, i>>] = 1

\* (arr[b0 : b2 + 1, b1 : b3 + 1] == 1).all(), block = <<x1, y1, x2, y2>>
BlockAllOnes(m, block) ==
    \A r \in block[1] .. block[3] : \A c \in block[2] .. block[4] :
        m.a[<<r, c>>] = 1

\* Extend in first dimension as far as possible (lines 152-157).
ExtendDown(m, block) ==
    LET x1 == block[1]
        y1 == block[2]
        down_stop == ArgmaxZeroBelow(m, x1, y1) - 1
    IN  IF down_stop = -1
        THEN [block EXCEPT ![3] = NRows(m) - 1]
        ELSE [block EXCEPT ![3] = x1 + down_stop]

\* Extend in second dimension (lines 160-162): the for loop over
\* range(y1, arr.shape[1]); it has no break.
RECURSIVE ExtendRight(_, _, _)
ExtendRight(m, block, i) ==
    IF i >= NCols(m) THEN block
    ELSE ExtendRight(
            m,
            IF ColAllOnes(m, block[1], block[3], i)
            THEN [block EXCEPT ![4] = i]
            ELSE block,
            i + 1)

\* The block selected by one iteration of the while loop (lines 148-162).
\* The seed (x1, y1) is the element of a singleton set, so that it is
\* computed once.
SelectBlock(m) ==
    CHOOSE block \in
        { ExtendRight(m, ExtendDown(m, <<xy[1], xy[2], xy[1], xy[2]>>), xy[2]) :
            xy \in {UnravelIndex(FlatArgmax(m), m)} } : TRUE

BlockCells(block) == (block[1] .. block[3]) \X (block[2] .. block[4])

\* Mutant: the seed cell of the block is left as it is.
ZeroOutKeepSeed(m, block) ==
    [m EXCEPT !.a = [ij \in Cells(m) |->
                        IF ij \in BlockCells(block) /\ ij # <<block[1], block[2]>>
                        THEN 0 ELSE m.a[ij]]]

\* arr[b0 : b2 + 1, b1 : b3 + 1] = 0
ZeroOut(m, block) ==
    [m EXCEPT !.a = [ij \in Cells(m) |->
                        IF ij \in BlockCells(block) THEN 0 ELSE m.a[ij]]]

\* ---------------------------------------------------------------------
\* Names. A name is a sequence of text fragments; the characters "*" and
\* " " are always fragments of their own, so str.replace on one of them is
\* a replacement of fragments.
\* ---------------------------------------------------------------------
\* Normalised allele names in sorted order (sorted(set(alleles)), line 187).
AlleleUniverse ==
    << <<"HLA-A", "*", "02:01">>, <<"HLA-B", "*", "07:02">> >>

\* PREDICTOR_TO_COLS (lines 84-87)
PREDICTOR_TO_COLS(predictor) ==
    IF predictor = "mhcflurry"
    THEN <<"affinity">>
    ELSE <<"affinity", "percentile_rank", "elution_score">>

\* manifest_df.allele + " " + manifest_df.kind (lines 219-220, 106)
ColName(allele, kind) == allele \o <<" ">> \o <<kind>>

\* s.replace(old, new) for a one-character old; new = "" deletes.
StrReplace(s, old, new) ==
    IF new = ""
    THEN SelectSeq(s, LAMBDA f : f # old)
    ELSE [i \in DOMAIN s |-> IF s[i] = old THEN new ELSE s[i]]

\* s.replace("*", "").replace(" ", ".") + ".npz" (lines 221-222)
PathOf(col) == StrReplace(StrReplace(col, "*", ""), " ", ".") \o <<".npz">>

Range(seq) == { seq[i] : i \in DOMAIN seq }

\* ---------------------------------------------------------------------
\* Float values. NaN is numpy.nan; every other value is a float32.
\* ---------------------------------------------------------------------
NaN == -1

\* ---------------------------------------------------------------------
\* pandas.read_csv of a one-column file of words over the peptide
\* alphabet, with the default NA values and type inference:
\*   "NA" is a default NA value and is read as NaN;
\*   "INF" and "INFINITY" are read as the float inf (case-insensitive
\*   literal) when the whole column is numeric, and kept as text when some
\*   row of the column is text.
\* ---------------------------------------------------------------------
CsvIsNA(x) == x = "NA"
CsvIsFloat(x) == x \in {"INF", "INFINITY"}

CsvColumnIsFloat(rows) ==
    /\ rows # <<>>
    /\ \A i \in DOMAIN rows : CsvIsNA(rows[i]) \/ CsvIsFloat(rows[i])

ReadCsvColumn(rows) ==
    [i \in DOMAIN rows |->
        IF CsvIsNA(rows[i]) THEN "float:nan"
        ELSE IF CsvColumnIsFloat(rows) THEN "float:inf"
        ELSE rows[i]]

\* ---------------------------------------------------------------------
\* Data frames: [index, columns, v], v keyed by (row label, column label)
\* ---------------------------------------------------------------------
\* pandas.DataFrame(index=..., columns=..., dtype="float32"); df[:] = nan
NewFrame(index, columns) ==
    [index |-> index, columns |-> columns,
     v |-> [k \in Range(index) \X Range(columns) |-> NaN]]

\* result_df.loc[labels, col] = value
LocAssign(df, labels, col, value) ==
    [df EXCEPT !.v =
        [k \in DOMAIN df.v |->
            IF k[2] = col /\ k[1] \in Range(labels)
            THEN value[CHOOSE i \in DOMAIN labels : labels[i] = k[1]]
            ELSE df.v[k]]]

\* result_df[col].values
ColumnValues(df, col) == [i \in DOMAIN df.index |-> df.v[<<df.index[i], col>>]]

\* ---------------------------------------------------------------------
\* Directories: peptides_csv and alleles_csv are <<>> (no such file) or
\* <<content>>; npz maps each existing column file to its array.
\* ---------------------------------------------------------------------
EmptyDir == [peptides_csv |-> <<>>, alleles_csv |-> <<>>, npz |-> <<>>]

\* numpy.savez(out_path, values): whole-file overwrite
SaveNpz(dir, path, values) ==
    [dir EXCEPT !.npz =
        [q \in DOMAIN dir.npz \cup {path} |->
            IF q = path THEN values ELSE dir.npz[q]]]

\* The manifest rows of lines 213-222, in allele-major order.
ManifestRows(alleles, kinds) ==
    [k \in 1 .. (Len(alleles) * Len(kinds)) |->
        LET allele == alleles[((k - 1) \div Len(kinds)) + 1]
            kind == kinds[((k - 1) % Len(kinds)) + 1]
        IN  [allele |-> allele, kind |-> kind,
             col |-> ColName(allele, kind),
             path |-> PathOf(ColName(allele, kind))]]

\* Make adjustments for old style data (lines 102-106).
AdjustOldStyle(manifest) ==
    [i \in DOMAIN manifest.rows |->
        LET r == manifest.rows[i]
            kind == IF "kind" \in manifest.columns THEN r.kind ELSE "affinity"
            col == IF "col" \in manifest.columns THEN r.col
                   ELSE ColName(r.allele, kind)
        IN  [allele |-> r.allele, kind |-> kind, col |-> col, path |-> r.path]]

\* value[mask]
MaskSelect(value, mask) ==
    LET keep == { i \in DOMAIN value : mask[i] }
        RECURSIVE Pick(_)
        Pick(i) == IF i > Len(value) THEN <<>>
                   ELSE (IF i \in keep THEN <<value[i]>> ELSE <<>>) \o Pick(i + 1)
    IN  Pick(1)

\* The loop of lines 121-126 from manifest row i on. mask is <<>> for
\* mask = None and <<the boolean row mask>> otherwise. The result is
\* [ok, df]: ok is FALSE when a column file cannot be opened or its array
\* does not fit the peptide list (the exception leaves load_results).
RECURSIVE LoadColumns(_, _, _, _, _, _)
LoadColumns(dir, rows, i, df, loaded_peptides, mask) ==
    IF i > Len(rows) THEN [ok |-> TRUE, df |-> df]
    ELSE
        LET row == rows[i]
            peptides_to_assign ==
                IF mask = <<>> THEN loaded_peptides
                ELSE MaskSelect(loaded_peptides, mask[1])
        IN  IF row.path \notin DOMAIN dir.npz
            THEN [ok |-> FALSE, df |-> df]
            ELSE IF Len(dir.npz[row.path]) # Len(loaded_peptides)
            THEN [ok |-> FALSE, df |-> df]
            ELSE
                LET value0 == dir.npz[row.path]
                    value == IF mask = <<>> THEN value0
                             ELSE MaskSelect(value0, mask[1])
                IN  LoadColumns(
                        dir, rows, i + 1,
                        LocAssign(df, peptides_to_assign, row.col, value),
                        loaded_peptides, mask)

\* load_results(dirname, result_df) (lines 90-128). target is <<>> for
\* result_df=None and <<result_df>> otherwise. The result is [ok, df];
\* ok is FALSE when an exception leaves the function.
load_results(dir, target) ==
    IF dir.peptides_csv = <<>> \/ dir.alleles_csv = <<>>
    THEN [ok |-> FALSE,
          df |-> IF target = <<>> THEN NewFrame(<<>>, <<>>) ELSE target[1]]
    ELSE
        LET loaded_peptides == ReadCsvColumn(dir.peptides_csv[1])
            manifest_all == AdjustOldStyle(dir.alleles_csv[1])
        IN  IF target = <<>>
            THEN
                LoadColumns(
                    dir, manifest_all, 1,
                    NewFrame(loaded_peptides,
                             [i \in DOMAIN manifest_all |-> manifest_all[i].col]),
                    loaded_peptides, <<>>)
            ELSE
                LET manifest_sel ==
                        SelectSeq(manifest_all,
                                  LAMBDA r : r.col \in Range(target[1].columns))
                    mask == [i \in DOMAIN loaded_peptides |->
                                loaded_peptides[i] \in Range(target[1].index)]
                IN  LoadColumns(dir, manifest_sel, 1, target[1],
                                loaded_peptides, <<mask>>)

\* ---------------------------------------------------------------------
\* run(): reading the input and initialising the output directory
\* (lines 186-231)
\* ---------------------------------------------------------------------
\* Words of the input CSV that match "^[ACDEFGHIKLMNPQRSTVWY]+$".
AlphabetWords == {"AAAA", "SIINFEKL", "KLGGALQAK", "YLLPAIVHI", "INF"}

\* Series.drop_duplicates() / Series.unique(): first occurrences, in order
RECURSIVE DropDuplicates(_)
DropDuplicates(seq) ==
    IF seq = <<>> THEN <<>>
    ELSE LET front == DropDuplicates(SubSeq(seq, 1, Len(seq) - 1))
             last == seq[Len(seq)]
         IN  IF last \in Range(front) THEN front ELSE Append(front, last)

\* Lines 189-194. ok is FALSE when the column was read as floats (.str
\* raises AttributeError) or holds a NaN (the boolean mask cannot index).
ReadInputPeptides(rows) ==
    LET col == ReadCsvColumn(rows)
    IN  IF CsvColumnIsFloat(rows) \/ "float:nan" \in Range(col)
        THEN [ok |-> FALSE, peptides |-> <<>>]
        ELSE [ok |-> TRUE,
              peptides |-> DropDuplicates(
                  SelectSeq(DropDuplicates(col),
                            LAMBDA w : w \in AlphabetWords))]

\* manifest_df of lines 213-222
ManifestOf(a) == ManifestRows(a.allele, PREDICTOR_TO_COLS(a.predictor))

\* manifest_df.col.values
ManifestCols(a) == [i \in DOMAIN ManifestOf(a) |-> ManifestOf(a)[i].col]

\* Lines 208-227: peptides.csv and alleles.csv are (over)written; column
\* files already in the directory stay.
WriteLists(dir, a, peps) ==
    [dir EXCEPT
        !.peptides_csv = <<peps>>,
        !.alleles_csv = <<[columns |-> {"allele", "kind", "col", "path"},
                           rows |-> ManifestOf(a)]>>]

\* write_col(col) (lines 349-356)
write_col(dir, df, col) == SaveNpz(dir, PathOf(col), ColumnValues(df, col))

\* for col in cols: write_col(col)
RECURSIVE WriteColumns(_, _, _)
WriteColumns(dir, df, cols) ==
    IF cols = <<>> THEN dir
    ELSE WriteColumns(write_col(dir, df, Head(cols)), df, Tail(cols))

\* Mutant: the final write keeps to the timers.
FinalColumnsByTimer(df, last_write, t) ==
    SelectSeq(df.columns, LAMBDA c : t - last_write[c] > FlushInterval)

\* The columns of the final write (lines 370-371): every column, whatever
\* its timer.
FinalColumns(df, last_write, t) == df.columns

\* Nonempty prefixes of the sorted allele universe.
AlleleLists == { SubSeq(AlleleUniverse, 1, k) : k \in 1 .. Len(AlleleUniverse) }

BlocksIdle ==
    /\ arr_in = [shape |-> <<0, 0>>, a |-> <<>>]
    /\ arr = arr_in
    /\ blocks = <<>>
    /\ last_block = <<>>
    /\ bpc = "idle"

SchedIdle ==
    /\ reuse_left = 0
    /\ work_items = <<>>
    /\ tasks = <<>>
    /\ pending = {}
    /\ updates = <<>>
    /\ now = 0
    /\ last_write_time_per_column = <<>>
    /\ reused_df = NewFrame(<<>>, <<>>)
    /\ merged = {}
    /\ out_of_order = FALSE
    /\ flush_log = {}
    /\ flush_count = <<>>
    /\ failed = 0

RunIdle ==
    /\ pc = "idle"
    /\ err = ""
    /\ input_rows = <<>>
    /\ args = [predictor |-> "mhcflurry", allele |-> <<>>, chunk_size |-> 1,
               reuse_predictions |-> 0, num_jobs |-> 0]
    /\ peptides = <<>>
    /\ result_df = NewFrame(<<>>, <<>>)
    /\ out_dir = EmptyDir
    /\ loaded = <<>>
    /\ SchedIdle

\* ---------------------------------------------------------------------
\* The column store on its own: a ResultMatrix is written to args.out
\* and read back with load_results.
\* ---------------------------------------------------------------------
StoreWords == {"AAAA", "SIINFEKL", "INF", "XXXX"}

RECURSIVE SeqsUpTo(_, _)
SeqsUpTo(S, n) ==
    IF n = 0 THEN { <<>> }
    ELSE SeqsUpTo(S, n - 1) \cup
         { Append(q, x) : q \in { r \in SeqsUpTo(S, n - 1) : Len(r) = n - 1 },
                          x \in S }

\* The value of cell (row i, column j) when it is computed.
CellValue(i, j) == 10 * i + j

IndexIn(seq, x) == CHOOSE i \in DOMAIN seq : seq[i] = x

\* The frames over (index, columns) whose cells are NaN or computed.
Frames(index, columns) ==
    { [index |-> index, columns |-> columns,
       v |-> [k \in Range(index) \X Range(columns) |->
                 IF k \in nulls THEN NaN
                 ELSE CellValue(IndexIn(index, k[1]), IndexIn(columns, k[2]))]] :
      nulls \in SUBSET (Range(index) \X Range(columns)) }

InitStore ==
    /\ BlocksIdle
    /\ pc = "start"
    /\ err = ""
    /\ input_rows \in SeqsUpTo(StoreWords, MaxStoreRows)
    /\ \E predictor \in {"mhcflurry", "netmhcpan4"} : \E allele \in AlleleLists :
          args = [predictor |-> predictor, allele |-> allele, chunk_size |-> 1,
                  reuse_predictions |-> 0, num_jobs |-> 0]
    /\ peptides = <<>>
    /\ result_df = NewFrame(<<>>, <<>>)
    /\ out_dir = EmptyDir
    /\ loaded = <<>>
    /\ SchedIdle

\* Lines 189-231, with the ResultMatrix then holding any values.
StoreSetup ==
    /\ pc = "start"
    /\ LET r == ReadInputPeptides(input_rows) IN
          IF r.ok
          THEN /\ peptides' = r.peptides
               /\ out_dir' = WriteLists(out_dir, args, r.peptides)
               /\ result_df' \in Frames(r.peptides, ManifestCols(args))
               /\ pc' = "merged"
               /\ err' = err
          ELSE /\ pc' = "aborted"
               /\ err' = "InputError"
               /\ UNCHANGED <<peptides, out_dir, result_df>>
    /\ UNCHANGED <<blocks_vars, input_rows, args, loaded, sched_vars, hist_vars>>

\* Lines 369-371: every column is written.
StoreWriteColumns ==
    /\ pc = "merged"
    /\ out_dir' = WriteColumns(out_dir, result_df, result_df.columns)
    /\ pc' = "written"
    /\ UNCHANGED <<blocks_vars, err, input_rows, args, peptides, result_df, loaded,
                   sched_vars, hist_vars>>

\* load_results(args.out)
StoreLoadFresh ==
    /\ pc = "written"
    /\ loaded' = <<load_results(out_dir, <<>>)>>
    /\ pc' = "loaded"
    /\ UNCHANGED <<blocks_vars, err, input_rows, args, peptides, result_df, out_dir,
                   sched_vars, hist_vars>>

\* load_results(args.out, result_df) into an all-NaN frame with the same
\* peptides and columns (what a reuse run over the same inputs does).
StoreLoadInto ==
    /\ pc = "written"
    /\ loaded' = <<load_results(
                      out_dir, <<NewFrame(result_df.index, result_df.columns)>>)>>
    /\ pc' = "loaded"
    /\ UNCHANGED <<blocks_vars, err, input_rows, args, peptides, result_df, out_dir,
                   sched_vars, hist_vars>>

\* The peptide lists and column lists of a later run that reuses the
\* store: other peptides, another order, other alleles, another predictor.
TargetIndexes ==
    { <<"AAAA">>, <<"SIINFEKL", "AAAA">>, <<"INF", "KLGGALQAK">>,
      <<"KLGGALQAK">> }

TargetColumns ==
    { ManifestRows(AlleleUniverse, PREDICTOR_TO_COLS("mhcflurry")),
      ManifestRows(<<AlleleUniverse[2]>>, PREDICTOR_TO_COLS("netmhcpan4")) }

\* The ResultMatrix of the later run before the load: all NaN, or holding
\* values of its own in every cell.
TargetFrames ==
    UNION { { NewFrame(index, [i \in DOMAIN rows |-> rows[i].col]),
              [index |-> index,
               columns |-> [i \in DOMAIN rows |-> rows[i].col],
               v |-> [k \in Range(index) \X { rows[i].col : i \in DOMAIN rows } |->
                        900 + CellValue(IndexIn(index, k[1]),
                                        CHOOSE i \in DOMAIN rows : rows[i].col = k[2])]] } :
            index \in TargetIndexes, rows \in TargetColumns }

\* load_results(args.out, result_df) into the ResultMatrix of a later run
\* with its own peptides and columns (lines 237-239 of that run).
StoreLoadReuse ==
    /\ pc = "written"
    /\ \E target \in TargetFrames :
          /\ reused_df' = target
          /\ loaded' = <<load_results(out_dir, <<target>>)>>
    /\ pc' = "reloaded"
    /\ UNCHANGED <<blocks_vars, err, input_rows, args, peptides, result_df, out_dir,
                   sched_vars, merged, out_of_order, flush_log, flush_count,
                   failed>>

NextStore ==
    \/ StoreSetup
    \/ StoreWriteColumns
    \/ StoreLoadFresh
    \/ StoreLoadInto
    \/ StoreLoadReuse

SpecStore == InitStore /\ [][NextStore]_vars

\* ---------------------------------------------------------------------
\* run(): reuse, partitioning, packing (lines 233-306)
\* ---------------------------------------------------------------------
\* blocks_of_ones(arr) as a whole: [ok, blocks, arr]; ok is FALSE when the
\* assertion of line 165 fails.
RECURSIVE BlocksLoop(_, _)
BlocksLoop(m, acc) ==
    IF ArrSum(m) = 0 THEN [ok |-> TRUE, blocks |-> acc, arr |-> m]
    ELSE LET block == SelectBlock(m)
         IN  IF BlockAllOnes(m, block)
             THEN BlocksLoop(ZeroOut(m, block), Append(acc, block))
             ELSE [ok |-> FALSE, blocks |-> acc, arr |-> m]

blocks_of_ones(m) == BlocksLoop(m, <<>>)

\* Mutant: a pair is missing only when every kind is null.
IsNullMatrixAll(df, a) ==
    [shape |-> <<Len(df.index), Len(a.allele)>>,
     a |-> [ij \in (0 .. (Len(df.index) - 1)) \X (0 .. (Len(a.allele) - 1)) |->
              IF \A kind \in Range(PREDICTOR_TO_COLS(a.predictor)) :
                    df.v[<<df.index[ij[1] + 1],
                           ColName(a.allele[ij[2] + 1], kind)>>] = NaN
              THEN 1 ELSE 0]]

\* is_null_matrix.values (lines 245-248): cell (i, j) is 1 iff some kind
\* of allele j is null for peptide i.
IsNullMatrix(df, a) ==
    [shape |-> <<Len(df.index), Len(a.allele)>>,
     a |-> [ij \in (0 .. (Len(df.index) - 1)) \X (0 .. (Len(a.allele) - 1)) |->
              IF \E kind \in Range(PREDICTOR_TO_COLS(a.predictor)) :
                    df.v[<<df.index[ij[1] + 1],
                           ColName(a.allele[ij[2] + 1], kind)>>] = NaN
              THEN 1 ELSE 0]]

\* int(math.ceil(n / chunk_size)), n >= 0, chunk_size >= 1
CeilDiv(n, chunk_size) == (n + chunk_size - 1) \div chunk_size

\* Mutant: k chunks of len // k elements each; the remainder is dropped.
ArraySplitNoRemainder(ary, k) ==
    [j \in 1 .. k |->
        SubSeq(ary, (j - 1) * (Len(ary) \div k) + 1, j * (Len(ary) \div k))]

\* numpy.array_split(ary, k), k >= 1: k chunks, the first len % k of them
\* one longer than the others.
ArraySplit(ary, k) ==
    LET q == Len(ary) \div k
        r == Len(ary) % k
        start(j) == (j - 1) * q + (IF j - 1 < r THEN j - 1 ELSE r)
        size(j) == q + (IF j <= r THEN 1 ELSE 0)
    IN  [j \in 1 .. k |-> SubSeq(ary, start(j) + 1, start(j) + size(j))]

\* The array handed to numpy.array_split at line 265.
SplitSource(peps, block_peptides) == peps

\* The work items of one block (lines 258-272). The field block records
\* the block an item was made from; the code does not keep it.
BlockWorkItems(block, df, a, peps) ==
    LET block_alleles == SubSeq(a.allele, block[2] + 1, block[4] + 1)
        block_peptides == SubSeq(df.index, block[1] + 1, block[3] + 1)
        num_chunks == CeilDiv(Len(block_peptides), a.chunk_size)
        peptide_chunks == ArraySplit(SplitSource(peps, block_peptides), num_chunks)
    IN  [j \in 1 .. num_chunks |->
            [alleles |-> block_alleles, peptides |-> peptide_chunks[j],
             block |-> block]]

RECURSIVE ReuseWorkItems(_, _, _, _, _)
ReuseWorkItems(blks, i, df, a, peps) ==
    IF i > Len(blks) THEN <<>>
    ELSE BlockWorkItems(blks[i], df, a, peps)
            \o ReuseWorkItems(blks, i + 1, df, a, peps)

\* The work items of a fresh run (lines 275-285); called with peps # <<>>.
FreshWorkItems(a, peps) ==
    LET num_chunks == CeilDiv(Len(peps), a.chunk_size)
        peptide_chunks == ArraySplit(peps, num_chunks)
    IN  [j \in 1 .. num_chunks |->
            [alleles |-> a.allele, peptides |-> peptide_chunks[j],
             block |-> <<>>]]

\* work_item["work_item_num"] = i (lines 288-289)
Numbered(items) ==
    [i \in DOMAIN items |->
        [alleles |-> items[i].alleles, peptides |-> items[i].peptides,
         block |-> items[i].block, work_item_num |-> i - 1]]

\* Mutant: a sort that keeps one item of each length.
RECURSIVE SortedByLenDroppingTies(_)
SortedByLenDroppingTies(items) ==
    IF items = <<>> THEN <<>>
    ELSE LET rest == SortedByLenDroppingTies(SubSeq(items, 1, Len(items) - 1))
             x == items[Len(items)]
         IN  SelectSeq(rest, LAMBDA d : Len(d.peptides) < Len(x.peptides))
                \o <<x>>
                \o SelectSeq(rest, LAMBDA d : Len(d.peptides) > Len(x.peptides))

\* sorted(work_items, key=lambda d: len(d['peptides'])): a stable sort
RECURSIVE SortedByLen(_)
SortedByLen(items) ==
    IF items = <<>> THEN <<>>
    ELSE LET rest == SortedByLen(SubSeq(items, 1, Len(items) - 1))
             x == items[Len(items)]
         IN  SelectSeq(rest, LAMBDA d : Len(d.peptides) <= Len(x.peptides))
                \o <<x>>
                \o SelectSeq(rest, LAMBDA d : Len(d.peptides) > Len(x.peptides))

\* Mutant: the test with <= for <.
FitsLastTaskInclusive(n, peptides_in_last_task, chunk_size) ==
    n + peptides_in_last_task <= chunk_size

\* The test of lines 297-298.
FitsLastTask(n, peptides_in_last_task, chunk_size) ==
    n + peptides_in_last_task < chunk_size

\* The loop of lines 295-306 from item i on; peptides_in_last_task is <<>>
\* for None.
RECURSIVE PackFrom(_, _, _, _, _)
PackFrom(sorted, i, tks, peptides_in_last_task, chunk_size) ==
    IF i > Len(sorted) THEN tks
    ELSE LET work_item == sorted[i]
             n == Len(work_item.peptides)
         IN  IF /\ peptides_in_last_task # <<>>
                /\ FitsLastTask(n, peptides_in_last_task[1], chunk_size)
             THEN PackFrom(sorted, i + 1,
                           [tks EXCEPT ![Len(tks)] = Append(@, work_item)],
                           <<peptides_in_last_task[1] + n>>, chunk_size)
             ELSE PackFrom(sorted, i + 1, Append(tks, <<work_item>>),
                           <<n>>, chunk_size)

\* Combine work items to form tasks (lines 291-306).
PackTasks(items, chunk_size) ==
    PackFrom(SortedByLen(items), 1, <<>>, <<>>, chunk_size)

\* ---------------------------------------------------------------------
\* The predictor and the workers (lines 382-476)
\* ---------------------------------------------------------------------
AllWords == <<"AAAA", "SIINFEKL", "KLGGALQAK", "YLLPAIVHI", "INF">>
AllKinds == PREDICTOR_TO_COLS("netmhcpan4")

\* The predictor: a function of (peptide, allele, kind).
Predict(peptide, allele, kind) ==
    1000 + 100 * IndexIn(AlleleUniverse, allele)
         + 10 * IndexIn(AllWords, peptide) + IndexIn(AllKinds, kind)

\* The (work_item_num, col, predictions) a worker returns for one work
\* item: one array per allele and kind (lines 424-427, 464-474).
ItemUpdates(d, kinds) ==
    [k \in 1 .. (Len(d.alleles) * Len(kinds)) |->
        LET allele == d.alleles[((k - 1) \div Len(kinds)) + 1]
            kind == kinds[((k - 1) % Len(kinds)) + 1]
        IN  [work_item_num |-> d.work_item_num,
             col |-> ColName(allele, kind),
             predictions |-> [i \in DOMAIN d.peptides |->
                                 Predict(d.peptides[i], allele, kind)]]]

\* The result list of one task, flattened in its iteration order.
RECURSIVE TaskUpdates(_, _, _)
TaskUpdates(work_item_dicts, i, kinds) ==
    IF i > Len(work_item_dicts) THEN <<>>
    ELSE ItemUpdates(work_item_dicts[i], kinds)
            \o TaskUpdates(work_item_dicts, i + 1, kinds)

\* ---------------------------------------------------------------------
\* The entries --reuse-predictions may name
\* ---------------------------------------------------------------------
StoredPeptideLists ==
    { <<"AAAA">>, <<"SIINFEKL", "AAAA">>, <<"YLLPAIVHI", "SIINFEKL">> }

StoredAlleleLists ==
    AlleleLists \cup { <<AlleleUniverse[k]>> : k \in DOMAIN AlleleUniverse }

\* A value an earlier run stored.
StoredValue(peptide, allele, kind) ==
    100 * IndexIn(AlleleUniverse, allele)
        + 10 * IndexIn(AllWords, peptide) + IndexIn(AllKinds, kind)

\* What an earlier run had computed for a (peptide, allele) pair when it
\* last wrote its columns: every kind, no kind, or the first kind only.
PairStates(kinds) ==
    IF Len(kinds) = 1 THEN {"all", "none"} ELSE {"all", "none", "first"}

StoredDir(sp, sa, kinds, f) ==
    LET rows == ManifestRows(sa, kinds)
        cell(p, r) ==
            IF f[<<p, r.allele>>] = "all"
               \/ (f[<<p, r.allele>>] = "first" /\ r.kind = kinds[1])
            THEN StoredValue(p, r.allele, r.kind)
            ELSE NaN
    IN  [peptides_csv |-> <<sp>>,
         alleles_csv |-> <<[columns |-> {"allele", "kind", "col", "path"},
                            rows |-> rows]>>,
         npz |-> [q \in { rows[i].path : i \in DOMAIN rows } |->
                    LET r == rows[CHOOSE i \in DOMAIN rows : rows[i].path = q]
                    IN  [i \in DOMAIN sp |-> cell(sp[i], r)]]]

StoredDirsOf(kinds) ==
    UNION { { StoredDir(sp, sa, kinds, f) :
                f \in [Range(sp) \X Range(sa) -> PairStates(kinds)] } :
            sp \in StoredPeptideLists, sa \in StoredAlleleLists }

StoredDirs ==
    StoredDirsOf(PREDICTOR_TO_COLS("mhcflurry"))
        \cup StoredDirsOf(PREDICTOR_TO_COLS("netmhcpan4"))

\* A complete directory, and the same directory with the manifest of an
\* old-style run (no kind and col columns) or with a file missing.
BaseDir ==
    StoredDir(<<"AAAA">>, <<AlleleUniverse[1]>>, <<"affinity">>,
              [k \in {<<"AAAA", AlleleUniverse[1]>>} |-> "all"])

OldStyleDir ==
    [BaseDir EXCEPT !.alleles_csv =
        <<[columns |-> {"allele", "path"},
           rows |-> [i \in DOMAIN BaseDir.alleles_csv[1].rows |->
                       [BaseDir.alleles_csv[1].rows[i] EXCEPT
                           !.kind = "", !.col = <<>>]]]>>]

BrokenDirs ==
    { [BaseDir EXCEPT !.peptides_csv = <<>>],
      [BaseDir EXCEPT !.alleles_csv = <<>>],
      [BaseDir EXCEPT !.npz = <<>>] }

\* tag "empty": the empty string; "absent": no such directory.
ReuseEntries ==
    { [tag |-> "empty", dir |-> EmptyDir], [tag |-> "absent", dir |-> EmptyDir] }
    \cup { [tag |-> "dir", dir |-> d] :
              d \in StoredDirs \cup {OldStyleDir} \cup BrokenDirs }

\* ---------------------------------------------------------------------
\* run(), one action per stage and per merged column update
\* ---------------------------------------------------------------------
TickSteps == {FlushInterval, FlushInterval + 1}

Init ==
    /\ BlocksIdle
    /\ pc = "start"
    /\ err = ""
    /\ \E predictor \in {"mhcflurry", "netmhcpan4"} :
       \E allele \in AlleleLists :
       \E chunk_size \in 1 .. MaxChunkSize :
       \E n_reuse \in 0 .. MaxReuseDirs :
       \E num_jobs \in {0, 1} :
          /\ n_reuse > 0 =>
                Len(allele) * Len(PREDICTOR_TO_COLS(predictor)) <= MaxReuseColumns
          /\ args = [predictor |-> predictor, allele |-> allele,
                     chunk_size |-> chunk_size, reuse_predictions |-> n_reuse,
                     num_jobs |-> num_jobs]
    /\ \E n \in 0 .. (IF args.reuse_predictions = 0
                       THEN MaxFreshPeptides ELSE MaxPeptides) :
          input_rows = SubSeq(AllWords, 1, n)
    /\ peptides = <<>>
    /\ result_df = NewFrame(<<>>, <<>>)
    /\ out_dir = EmptyDir
    /\ loaded = <<>>
    /\ reuse_left = args.reuse_predictions
    /\ work_items = <<>>
    /\ tasks = <<>>
    /\ pending = {}
    /\ updates = <<>>
    /\ now = StartTime
    /\ last_write_time_per_column = <<>>
    /\ reused_df = NewFrame(<<>>, <<>>)
    /\ merged = {}
    /\ out_of_order = FALSE
    /\ flush_log = {}
    /\ flush_count = <<>>
    /\ failed = 0

\* Lines 186-231.
RunSetup ==
    /\ pc = "start"
    /\ LET r == ReadInputPeptides(input_rows) IN
          IF r.ok
          THEN /\ peptides' = r.peptides
               /\ out_dir' = WriteLists(out_dir, args, r.peptides)
               /\ result_df' = NewFrame(r.peptides, ManifestCols(args))
               /\ pc' = IF args.reuse_predictions > 0 THEN "reuse" ELSE "partition"
               /\ err' = err
          ELSE /\ pc' = "aborted"
               /\ err' = "InputError"
               /\ UNCHANGED <<peptides, out_dir, result_df>>
    /\ UNCHANGED <<blocks_vars, input_rows, args, loaded, sched_vars, hist_vars>>

\* One turn of the loop of lines 234-241, over the next entry of
\* args.reuse_predictions. An exception of load_results is not caught.
LoadReuse ==
    /\ pc = "reuse"
    /\ reuse_left > 0
    /\ \E e \in ReuseEntries :
          IF e.tag = "dir"
          THEN LET r == load_results(e.dir, <<result_df>>) IN
                  /\ result_df' = r.df
                  /\ pc' = IF r.ok THEN pc ELSE "aborted"
                  /\ err' = IF r.ok THEN err ELSE "FileNotFoundError"
          ELSE UNCHANGED <<result_df, pc, err>>
    /\ reuse_left' = reuse_left - 1
    /\ UNCHANGED <<blocks_vars, input_rows, args, peptides, out_dir, loaded,
                   work_items, tasks, pending, updates, now,
                   last_write_time_per_column, hist_vars>>

\* Lines 243-272 and 288-289: the reuse run's work items.
PartitionReuse ==
    /\ pc = "reuse"
    /\ reuse_left = 0
    /\ LET m == IsNullMatrix(result_df, args)
           r == blocks_of_ones(m)
       IN  /\ arr_in' = m
           /\ arr' = r.arr
           /\ blocks' = r.blocks
           /\ IF r.ok
              THEN /\ bpc' = "returned"
                   /\ last_block' = <<>>
                   /\ work_items' =
                         Numbered(ReuseWorkItems(r.blocks, 1, result_df, args, peptides))
                   /\ pc' = "pack"
                   /\ err' = err
              ELSE /\ bpc' = "AssertionError"
                   /\ last_block' = SelectBlock(r.arr)
                   /\ work_items' = work_items
                   /\ pc' = "aborted"
                   /\ err' = "AssertionError"
    /\ reused_df' = result_df
    /\ UNCHANGED <<input_rows, args, peptides, result_df, out_dir, loaded,
                   reuse_left, tasks, pending, updates, now,
                   last_write_time_per_column, merged, out_of_order, flush_log,
                   flush_count, failed>>

\* Lines 274-289: the fresh run's work items. numpy.array_split raises
\* ValueError for zero sections.
PartitionFresh ==
    /\ pc = "partition"
    /\ IF CeilDiv(Len(peptides), args.chunk_size) = 0
       THEN /\ pc' = "aborted"
            /\ err' = "ValueError: number sections"
            /\ work_items' = work_items
       ELSE /\ work_items' = Numbered(FreshWorkItems(args, peptides))
            /\ pc' = "pack"
            /\ err' = err
    /\ reused_df' = result_df
    /\ UNCHANGED <<blocks_vars, input_rows, args, peptides, result_df, out_dir,
                   loaded, reuse_left, tasks, pending, updates, now,
                   last_write_time_per_column, merged, out_of_order, flush_log,
                   flush_count, failed>>

\* Lines 291-347: the tasks, handed to the executor; the flush timers.
PackWorkItems ==
    /\ pc = "pack"
    /\ tasks' = PackTasks(work_items, args.chunk_size)
    /\ pending' = DOMAIN tasks'
    /\ last_write_time_per_column' = [c \in Range(result_df.columns) |-> 0]
    /\ pc' = "merge"
    /\ UNCHANGED <<blocks_vars, err, input_rows, args, peptides, result_df,
                   out_dir, loaded, reuse_left, work_items, updates, now,
                   hist_vars>>

\* serial_run of line 184; the model has no cluster run, whose results
\* come in any order like the pool's.
serial_run(a) == a.num_jobs = 0

\* Mutant: the serial generator also yields the tasks in any order.
NextResultsAnyOrder(serial, pend) == pend

\* The tasks whose result list the results iterator can yield next: the
\* generator of lines 321-322 executes the tasks in list order, one per
\* request; imap_unordered (lines 338-341) yields them as they complete.
NextResults(serial, pend) ==
    IF serial /\ pend # {} THEN {SetMin(pend)} ELSE pend

\* Line 358: the executor yields the result list of some task.
FetchResults ==
    /\ pc = "merge"
    /\ updates = <<>>
    /\ \E t \in NextResults(serial_run(args), pending) :
          /\ updates' = TaskUpdates(tasks[t], 1, PREDICTOR_TO_COLS(args.predictor))
          /\ pending' = pending \ {t}
          /\ out_of_order' = (out_of_order \/ \E t2 \in pending : t2 < t)
    /\ UNCHANGED <<blocks_vars, setup_vars, reuse_left, work_items, tasks, now,
                   last_write_time_per_column, reused_df, merged, flush_log,
                   flush_count, failed>>

\* The number of work items in the tasks whose results have arrived.
RECURSIVE ItemsIn(_, _)
ItemsIn(tks, arrived) ==
    IF arrived = {} THEN 0
    ELSE LET t == CHOOSE x \in arrived : TRUE
         IN  Len(tks[t]) + ItemsIn(tks, arrived \ {t})

\* How many work-item results were taken from the stream before the one
\* being merged.
ArrivalPos ==
    ItemsIn(tasks, DOMAIN tasks \ pending)
        - Cardinality({ updates[i].work_item_num : i \in DOMAIN updates })

\* Mutant: results are routed by their position in the stream.
RouteByArrival(work_item_num, arrival_pos) == arrival_pos

\* The index into work_items that line 362 uses for a result.
RouteIndex(work_item_num, arrival_pos) == work_item_num

\* Mutant: the predictions are added to the values already in the cells.
MergeAccumulate(df, labels, col, predictions) ==
    [df EXCEPT !.v =
        [k \in DOMAIN df.v |->
            IF k[2] = col /\ k[1] \in Range(labels)
            THEN LET p == predictions[CHOOSE i \in DOMAIN labels : labels[i] = k[1]]
                 IN  IF df.v[k] = NaN THEN p ELSE df.v[k] + p
            ELSE df.v[k]]]

\* result_df.loc[work_items[work_item_num]['peptides'], col] = predictions
\* (lines 361-364)
MergeAssign(df, labels, col, predictions) == LocAssign(df, labels, col, predictions)

\* Mutant: the flush test with >= for >.
FlushDueInclusive(t, last_write) == t - last_write >= FlushInterval

\* time.time() - last_write_time_per_column[col] > 180 (line 365)
FlushDue(t, last_write) == t - last_write > FlushInterval

\* Lines 360-367 for one (col, predictions): the assignment, and the flush
\* when the column's timer has run out.
MergeUpdate ==
    /\ pc = "merge"
    /\ updates # <<>>
    /\ LET u == Head(updates)
           rows == work_items[RouteIndex(u.work_item_num, ArrivalPos) + 1].peptides
           df2 == MergeAssign(result_df, rows, u.col, u.predictions)
       IN  IF Len(rows) # Len(u.predictions)
           THEN /\ pc' = "aborted"
                /\ err' = "ValueError: shape mismatch"
                /\ UNCHANGED <<result_df, out_dir, updates, merged, flush_log,
                               flush_count, last_write_time_per_column>>
           ELSE /\ result_df' = df2
                /\ merged' = merged \cup (Range(rows) \X {u.col})
                /\ updates' = Tail(updates)
                /\ UNCHANGED <<pc, err>>
                /\ IF FlushDue(now, last_write_time_per_column[u.col])
                   THEN /\ out_dir' = write_col(out_dir, df2, u.col)
                        /\ last_write_time_per_column' =
                              [last_write_time_per_column EXCEPT ![u.col] = now]
                        /\ flush_log' = flush_log \ {u.col}
                        /\ flush_count' =
                              [c \in DOMAIN flush_count \cup {u.col} |->
                                  IF c # u.col THEN flush_count[c]
                                  ELSE IF c \in DOMAIN flush_count
                                       THEN flush_count[c] + 1 ELSE 1]
                   ELSE /\ flush_log' =
                              IF /\ PathOf(u.col) \in DOMAIN out_dir.npz
                                 /\ out_dir.npz[PathOf(u.col)]
                                       # ColumnValues(df2, u.col)
                              THEN flush_log \cup {u.col}
                              ELSE flush_log \ {u.col}
                        /\ UNCHANGED <<out_dir, last_write_time_per_column,
                                       flush_count>>
    /\ UNCHANGED <<blocks_vars, input_rows, args, peptides, loaded, reuse_left,
                   work_items, tasks, pending, now, reused_df, out_of_order,
                   failed>>

\* Line 358: the execution of the task the iterator was asked for raises
\* and the exception leaves the for loop and run(); nothing catches it.
TaskFails ==
    /\ pc = "merge"
    /\ updates = <<>>
    /\ \E t \in NextResults(serial_run(args), pending) : failed' = t
    /\ pc' = "aborted"
    /\ err' = "TaskError"
    /\ UNCHANGED <<blocks_vars, input_rows, args, peptides, result_df, out_dir,
                   loaded, sched_vars, reused_df, merged, out_of_order,
                   flush_log, flush_count>>

\* Time passes while results are awaited and merged.
Tick ==
    /\ pc = "merge"
    /\ updates # <<>> \/ pending # {}
    /\ \E d \in TickSteps :
          /\ now + d <= StartTime + MaxTicks * (FlushInterval + 1)
          /\ now' = now + d
    /\ UNCHANGED <<blocks_vars, setup_vars, reuse_left, work_items, tasks,
                   pending, updates, last_write_time_per_column, hist_vars>>

\* Lines 369-371: the final write of every column.
FinalWrite ==
    /\ pc = "merge"
    /\ updates = <<>>
    /\ pending = {}
    /\ out_dir' = WriteColumns(
                      out_dir, result_df,
                      FinalColumns(result_df, last_write_time_per_column, now))
    /\ pc' = "done"
    /\ UNCHANGED <<blocks_vars, err, input_rows, args, peptides, result_df,
                   loaded, sched_vars, hist_vars>>

Next ==
    \/ RunSetup
    \/ LoadReuse
    \/ PartitionReuse
    \/ PartitionFresh
    \/ PackWorkItems
    \/ FetchResults
    \/ MergeUpdate
    \/ TaskFails
    \/ Tick
    \/ FinalWrite

Spec == Init /\ [][Next]_vars

\* ---------------------------------------------------------------------
\* Task packing on its own: any list of work items, any chunk size
\* ---------------------------------------------------------------------
ItemOfSize(n, allele) ==
    [alleles |-> allele, peptides |-> SubSeq(AllWords, 1, n), block |-> <<>>]

InitPack ==
    /\ BlocksIdle
    /\ pc = "pack"
    /\ err = ""
    /\ input_rows = <<>>
    /\ \E chunk_size \in 1 .. MaxPackChunk :
          args = [predictor |-> "mhcflurry", allele |-> <<AlleleUniverse[1]>>,
                  chunk_size |-> chunk_size, reuse_predictions |-> 1,
                  num_jobs |-> 0]
    /\ peptides = <<>>
    /\ result_df = NewFrame(<<>>, <<>>)
    /\ out_dir = EmptyDir
    /\ loaded = <<>>
    /\ reuse_left = 0
    /\ \E sizes \in SeqsUpTo(0 .. MaxItemPeptides, MaxItems) :
          work_items =
              Numbered([i \in DOMAIN sizes |->
                           ItemOfSize(sizes[i], <<AlleleUniverse[1]>>)])
    /\ tasks = <<>>
    /\ pending = {}
    /\ updates = <<>>
    /\ now = StartTime
    /\ last_write_time_per_column = <<>>
    /\ reused_df = NewFrame(<<>>, <<>>)
    /\ merged = {}
    /\ out_of_order = FALSE
    /\ flush_log = {}
    /\ flush_count = <<>>
    /\ failed = 0

SpecPack == InitPack /\ [][PackWorkItems]_vars

\* ---------------------------------------------------------------------
\* blocks_of_ones, one action per iteration of its while loop
\* ---------------------------------------------------------------------
InitBlocks ==
    /\ \E nr \in 0 .. MaxRows : \E nc \in 1 .. MaxCols :
          arr_in \in Matrices(nr, nc)
    /\ arr = arr_in
    /\ blocks = <<>>
    /\ last_block = <<>>
    /\ bpc = "loop"
    /\ RunIdle

\* One iteration whose assertion (line 165) passes.
BlocksLoopBody ==
    /\ bpc = "loop"
    /\ ArrSum(arr) > 0
    /\ \E block \in {SelectBlock(arr)} :
          /\ BlockAllOnes(arr, block)
          /\ arr' = ZeroOut(arr, block)
          /\ blocks' = Append(blocks, block)
          /\ last_block' = block
    /\ UNCHANGED <<arr_in, bpc, run_vars>>

\* One iteration whose assertion (line 165) fails: AssertionError.
BlocksAssertFails ==
    /\ bpc = "loop"
    /\ ArrSum(arr) > 0
    /\ \E block \in {SelectBlock(arr)} :
          /\ ~BlockAllOnes(arr, block)
          /\ last_block' = block
    /\ bpc' = "AssertionError"
    /\ UNCHANGED <<arr_in, arr, blocks, run_vars>>

\* The while test fails: return blocks (line 170).
BlocksReturn ==
    /\ bpc = "loop"
    /\ ArrSum(arr) = 0
    /\ bpc' = "returned"
    /\ UNCHANGED <<arr_in, arr, blocks, last_block, run_vars>>

NextBlocks == BlocksLoopBody \/ BlocksAssertFails \/ BlocksReturn

SpecBlocks == InitBlocks /\ [][NextBlocks]_vars

\* The same loop started by a call: before the call nothing runs.
InitBlocksCall == BlocksIdle /\ RunIdle

\* blocks_of_ones(arr) is called with some matrix (lines 145-146).
BlocksCall ==
    /\ bpc = "idle"
    /\ \E nr \in 0 .. MaxCallRows : \E nc \in 1 .. MaxCallCols :
          arr_in' \in Matrices(nr, nc)
    /\ arr' = arr_in'
    /\ blocks' = <<>>
    /\ last_block' = <<>>
    /\ bpc' = "loop"
    /\ UNCHANGED run_vars

NextBlocksCall == BlocksCall \/ NextBlocks

\* Once called, the while loop keeps running until its test fails or an
\* exception leaves it.
SpecBlocksLive ==
    InitBlocksCall /\ [][NextBlocksCall]_vars /\ WF_vars(NextBlocks)

\* ---------------------------------------------------------------------
\* Claims about blocks_of_ones
\* ---------------------------------------------------------------------
BlocksFinished == bpc \in {"returned", "AssertionError"}

CoveredCells == UNION { BlockCells(blocks[k]) : k \in DOMAIN blocks }

BlocksDisjoint ==
    \A k1, k2 \in DOMAIN blocks :
        k1 # k2 => BlockCells(blocks[k1]) \cap BlockCells(blocks[k2]) = {}

\* C1: for any boolean matrix, blocks_of_ones returns blocks that are
\* pairwise non-overlapping, lie on true cells of the input, and whose
\* union is exactly the set of true cells of the input.
C1_ExactCover ==
    BlocksFinished =>
        /\ bpc = "returned"
        /\ BlocksDisjoint
        /\ CoveredCells = TrueCells(arr_in)

\* ---------------------------------------------------------------------
\* Claims about run()
\* ---------------------------------------------------------------------
ReuseRun == args.reuse_predictions > 0
FreshRun == args.reuse_predictions = 0
Partitioned == pc \in {"pack", "merge", "done"}

\* The allele of a column name "<allele> <kind>".
AlleleOfCol(col) == SubSeq(col, 1, Len(col) - 2)

\* The (peptide, allele) pair is a true cell of the MissingMatrix.
PairMissing(peptide, allele) ==
    arr_in.a[<<IndexIn(peptides, peptide) - 1,
               IndexIn(args.allele, allele) - 1>>] = 1

BlockPeptides(block) == SubSeq(reused_df.index, block[1] + 1, block[3] + 1)
BlockAlleles(block) == SubSeq(args.allele, block[2] + 1, block[4] + 1)

\* C3: in a reuse run every work item made from a block has its peptides
\* inside the block's rows and the block's columns as its alleles, so
\* every (peptide, allele) pair it covers is missing.
C3_WorkItemsOnlyMissing ==
    (ReuseRun /\ Partitioned) =>
        \A i \in DOMAIN work_items :
            /\ Range(work_items[i].peptides)
                  \subseteq Range(BlockPeptides(work_items[i].block))
            /\ work_items[i].alleles = BlockAlleles(work_items[i].block)
            /\ \A p \in Range(work_items[i].peptides) :
               \A al \in Range(work_items[i].alleles) : PairMissing(p, al)

\* C4: in a reuse run a cell that holds a reused value, and whose
\* (peptide, allele) pair is not missing, is never written by the merge
\* and keeps the reused value in memory and in the final column file.
C4_ReusedCellsKept ==
    (ReuseRun /\ Partitioned) =>
        \A k \in DOMAIN reused_df.v :
            (reused_df.v[k] # NaN /\ ~PairMissing(k[1], AlleleOfCol(k[2]))) =>
                /\ k \notin merged
                /\ result_df.v[k] = reused_df.v[k]
                /\ pc = "done" =>
                      out_dir.npz[PathOf(k[2])][IndexIn(peptides, k[1])]
                          = reused_df.v[k]

RECURSIVE Concat(_)
Concat(chunks) ==
    IF chunks = <<>> THEN <<>> ELSE Head(chunks) \o Concat(Tail(chunks))

\* ceil(n / c), stated without the code's arithmetic.
CeilOf(n, c) == CHOOSE k \in 0 .. n : k * c >= n /\ (k = 0 \/ (k - 1) * c < n)

\* The chunks of the work items are the peptide sequence cut into
\* ceil(N/C) contiguous pieces, each paired with all alleles.
ChunksPartitionPeptides ==
    /\ Concat([i \in DOMAIN work_items |-> work_items[i].peptides]) = peptides
    /\ Len(work_items) = CeilOf(Len(peptides), args.chunk_size)
    /\ \A i \in DOMAIN work_items : work_items[i].alleles = args.allele

\* The fresh run has left the partitioning stage (by its end or by an
\* exception raised in it).
FreshPartitionOver ==
    /\ FreshRun
    /\ Partitioned \/ (pc = "aborted" /\ err = "ValueError: number sections")

\* C6 as stated: in a fresh run the chunks cover every peptide exactly
\* once, contiguous and in order, and number ceil(N/C); for N = 0 there
\* are zero chunks and zero work items.
C6_FreshChunks_Original ==
    FreshPartitionOver => (Partitioned /\ ChunksPartitionPeptides)

\* C6 as amended: the same for N >= 1; for N = 0 numpy.array_split raises
\* and the run aborts without any work item.
C6_FreshChunks ==
    FreshPartitionOver =>
        IF Len(peptides) = 0
        THEN pc = "aborted" /\ work_items = <<>>
        ELSE Partitioned /\ ChunksPartitionPeptides

C6_Witness ==
    /\ FreshRun
    /\ pc = "pack"
    /\ \E i, j \in DOMAIN work_items :
          Len(work_items[i].peptides) > Len(work_items[j].peptides)

\* C7: when all results are consumed every column is written, so at the
\* end each column file equals the in-memory column.
C7_FinalFlush ==
    pc = "done" =>
        \A i \in DOMAIN result_df.columns :
            /\ PathOf(result_df.columns[i]) \in DOMAIN out_dir.npz
            /\ out_dir.npz[PathOf(result_df.columns[i])]
                  = ColumnValues(result_df, result_df.columns[i])

\* A finished run in which a periodic flush wrote a column that changed
\* afterwards.
C7_Witness ==
    /\ pc = "done"
    /\ flush_log # {}

\* C8: a reuse directory with a missing peptide file, manifest or column
\* file is skipped; the run never aborts because of it.
C8_BadReuseSkipped == ~(pc = "aborted" /\ err = "FileNotFoundError")

\* The result lists of all tasks in submission order.
RECURSIVE UpdatesFrom(_)
UpdatesFrom(t) ==
    IF t > Len(tasks) THEN <<>>
    ELSE TaskUpdates(tasks[t], 1, PREDICTOR_TO_COLS(args.predictor))
            \o UpdatesFrom(t + 1)

RECURSIVE ApplyByIndex(_, _)
ApplyByIndex(df, us) ==
    IF us = <<>> THEN df
    ELSE ApplyByIndex(
            LocAssign(df, work_items[Head(us).work_item_num + 1].peptides,
                      Head(us).col, Head(us).predictions),
            Tail(us))

\* C9: the final ResultMatrix and column files do not depend on the
\* order in which the tasks' result lists arrive: they are what merging
\* the result lists in submission order gives.
C9_OrderIndependent ==
    pc = "done" =>
        LET expected == ApplyByIndex(reused_df, UpdatesFrom(1))
        IN  /\ result_df = expected
            /\ \A i \in DOMAIN expected.columns :
                  out_dir.npz[PathOf(expected.columns[i])]
                      = ColumnValues(expected, expected.columns[i])

\* A finished run in which a result list arrived before that of an
\* earlier task.
C9_Witness ==
    /\ pc = "done"
    /\ out_of_order

\* ---------------------------------------------------------------------
\* Claims about task packing
\* ---------------------------------------------------------------------
RECURSIVE TaskPeptides(_)
TaskPeptides(work_item_dicts) ==
    IF work_item_dicts = <<>> THEN 0
    ELSE Len(Head(work_item_dicts).peptides) + TaskPeptides(Tail(work_item_dicts))

\* C5: after packing, every task's total peptide count is below the chunk
\* size, or the task is a single work item of at least chunk size.
C5_TaskBound ==
    pc = "merge" =>
        \A t \in DOMAIN tasks :
            \/ TaskPeptides(tasks[t]) < args.chunk_size
            \/ /\ Len(tasks[t]) = 1
               /\ Len(tasks[t][1].peptides) >= args.chunk_size

\* A packing with a combined task and with an oversized single item.
C5_Witness ==
    /\ pc = "merge"
    /\ \E t \in DOMAIN tasks : Len(tasks[t]) >= 2
    /\ \E t \in DOMAIN tasks :
          Len(tasks[t]) = 1 /\ Len(tasks[t][1].peptides) > args.chunk_size

\* ---------------------------------------------------------------------
\* Claims about the column store
\* ---------------------------------------------------------------------
\* C10: writing every column of a ResultMatrix to a store and loading the
\* store back with load_results (same peptides, same columns) reproduces
\* the matrix exactly, NaN cells included.
C10_RoundTrip ==
    pc = "loaded" => (loaded[1].ok /\ loaded[1].df = result_df)

\* C2: in every iteration the selected rectangle holds only 1s in the
\* working matrix, so the assertion before zeroing never fails.
C2_AssertNeverFails == bpc # "AssertionError"

\* ---------------------------------------------------------------------
\* Claims about the merge loop
\* ---------------------------------------------------------------------
\* The peptides of the work item that the next result is routed to.
NextRows == work_items[Head(updates).work_item_num + 1].peptides

\* The matrix after the next (work_item_num, col, predictions) is merged
\* into df.
MergeNext(df) ==
    MergeAssign(df, NextRows, Head(updates).col, Head(updates).predictions)

\* C11: merging the same (work_item_num, col, predictions) result into the
\* ResultMatrix twice gives the same matrix as merging it once.
C11_MergeIdempotent ==
    (pc = "merge" /\ updates # <<>>) =>
        MergeNext(MergeNext(result_df)) = MergeNext(result_df)

\* A result is about to be merged into a matrix that earlier merges have
\* written, and merging it changes the matrix.
C11_Witness ==
    /\ pc = "merge"
    /\ updates # <<>>
    /\ merged # {}
    /\ MergeNext(result_df) # result_df

\* ---------------------------------------------------------------------
\* More claims about blocks_of_ones
\* ---------------------------------------------------------------------
\* C12: blocks_of_ones terminates on every binary matrix: every iteration
\* that stays in the loop strictly decreases the number of true cells of
\* the working matrix, and the loop is eventually left (by the return or
\* by the AssertionError of line 165).
C12_Terminates ==
    /\ [][(bpc = "loop" /\ bpc' = "loop") => ArrSum(arr') < ArrSum(arr)]_vars
    /\ (bpc = "loop") ~> BlocksFinished

\* A call that returned after several iterations.
C12_Witness ==
    /\ bpc = "returned"
    /\ Len(blocks) >= 2

\* The last column of the run of columns, from the seed column y1 on, whose
\* cells in rows r1..r2 are all true: the column before the first failing
\* one, or the last column of the matrix when none fails.
StopColumn(m, r1, r2, y1) ==
    LET failing == { c \in y1 .. (NCols(m) - 1) : ~ColAllOnes(m, r1, r2, c) }
    IN  IF failing = {} THEN NCols(m) - 1 ELSE SetMin(failing) - 1

\* C13: in every iteration the column extent of the selected block runs
\* from the seed column to the column before the first failing column; no
\* column beyond the first failing one is included.
C13_StopsAtFirstFail ==
    [][(bpc = "loop" /\ ArrSum(arr) > 0) =>
          last_block'[4] =
              StopColumn(arr, last_block'[1], last_block'[3], last_block'[2])]_vars

\* ---------------------------------------------------------------------
\* More claims about run()
\* ---------------------------------------------------------------------
\* C14: in the fresh run and in the reuse run alike, every work item holds
\* at most chunk_size peptides.
C14_ItemsBounded ==
    Partitioned =>
        \A i \in DOMAIN work_items :
            Len(work_items[i].peptides) <= args.chunk_size

\* All results have been consumed: the merge loop is over.
MergeOver == pc = "done" \/ (pc = "merge" /\ updates = <<>> /\ pending = {})

\* The cell was missing when partitioning started: it was NaN, or (reuse
\* run) its (peptide, allele) pair is a true cell of the MissingMatrix.
MissingAtStart(k) ==
    \/ reused_df.v[k] = NaN
    \/ ReuseRun /\ PairMissing(k[1], AlleleOfCol(k[2]))

\* C15: when block finding succeeds and every task returns its arrays,
\* every cell that was missing when partitioning started has been written
\* by the merge when the merge loop is over, before the final write.
C15_AllMissingMerged ==
    MergeOver =>
        \A k \in DOMAIN reused_df.v : MissingAtStart(k) => k \in merged

\* A finished reuse run that had a (peptide, allele) pair with one kind
\* computed and another kind missing.
C15_Witness ==
    /\ pc = "done"
    /\ ReuseRun
    /\ \E k \in DOMAIN reused_df.v : reused_df.v[k] # NaN /\ MissingAtStart(k)

\* The column file of col in dir: <<>> when there is none.
NpzOf(dir, col) ==
    IF PathOf(col) \in DOMAIN dir.npz THEN <<dir.npz[PathOf(col)]>> ELSE <<>>

\* C16: while results are merged, a column's file is written and its
\* timestamp changed only when more than 180 seconds have passed since the
\* column's timestamp, and the timestamp is then reset to the time of the
\* flush, so two periodic flushes of a column are more than 180 seconds
\* apart; the timestamps start at 0, so a column that has been updated has
\* been flushed.
C16_FlushInterval ==
    /\ [][(pc = "merge" /\ pc' = "merge") =>
            \A c \in Range(result_df.columns) :
                (\/ last_write_time_per_column'[c] # last_write_time_per_column[c]
                 \/ NpzOf(out_dir', c) # NpzOf(out_dir, c)) =>
                    /\ now - last_write_time_per_column[c] > 180
                    /\ last_write_time_per_column'[c] = now
                    /\ last_write_time_per_column'[c]
                          - last_write_time_per_column[c] > 180]_vars
    /\ [](pc \in {"merge", "done"} =>
            \A k \in merged :
                /\ k[2] \in DOMAIN flush_count
                /\ NpzOf(out_dir, k[2]) # <<>>
                /\ last_write_time_per_column[k[2]] > 0)

\* A finished run in which some column was flushed twice by its timer.
C16_Witness ==
    /\ pc = "done"
    /\ \E c \in DOMAIN flush_count : flush_count[c] >= 2

\* ---------------------------------------------------------------------
\* More claims about the column store
\* ---------------------------------------------------------------------
\* The value the store holds for (peptide, col): the entry of the column
\* file of col at the position of the peptide in the stored peptide list.
StoredCell(dir, peptide, col) ==
    dir.npz[PathOf(col)][IndexIn(dir.peptides_csv[1], peptide)]

\* The column ids of the store's manifest.
StoredCols(dir) ==
    { dir.alleles_csv[1].rows[i].col : i \in DOMAIN dir.alleles_csv[1].rows }

\* C17: load_results with a target matrix merges by identity: a target
\* cell whose peptide is in the stored peptide list and whose column is a
\* stored column gets the stored value of that peptide and column; every
\* other target cell is unchanged.
C17_MergeByIdentity ==
    pc = "reloaded" =>
        /\ loaded[1].ok
        /\ loaded[1].df.index = reused_df.index
        /\ loaded[1].df.columns = reused_df.columns
        /\ \A k \in DOMAIN reused_df.v :
              loaded[1].df.v[k] =
                  IF /\ k[1] \in Range(out_dir.peptides_csv[1])
                     /\ k[2] \in StoredCols(out_dir)
                  THEN StoredCell(out_dir, k[1], k[2])
                  ELSE reused_df.v[k]

\* ---------------------------------------------------------------------
\* Task failure in the serial strategy
\* ---------------------------------------------------------------------
SerialFailure == serial_run(args) /\ err = "TaskError"

\* C18: in the serial strategy a raising task aborts the run at once: no
\* task after the failing one has been executed, the failing step and
\* every later step leave the ResultMatrix and the output directory as
\* they were (no merge, no periodic flush, no final write: the run takes
\* no step at all after the failure), and the cells of the failed task
\* that no earlier result was merged into hold the value they had when
\* partitioning started.
C18_SerialFailureAborts ==
    /\ [][~SerialFailure]_vars
    /\ [][(serial_run(args) /\ err' = "TaskError") =>
              /\ err = ""
              /\ pc' = "aborted"
              /\ result_df' = result_df
              /\ out_dir' = out_dir
              /\ merged' = merged
              /\ last_write_time_per_column' = last_write_time_per_column]_vars
    /\ [](SerialFailure =>
              /\ pc = "aborted"
              /\ failed \in pending
              /\ \A t \in DOMAIN tasks : t > failed => t \in pending
              /\ \A t \in DOMAIN tasks : t < failed => t \notin pending
              /\ \A i \in DOMAIN tasks[failed] :
                 \A p \in Range(tasks[failed][i].peptides) :
                 \A c \in Range(result_df.columns) :
                    <<p, c>> \notin merged =>
                        result_df.v[<<p, c>>] = reused_df.v[<<p, c>>])

\* A serial run fails in its second task of three, after the results of
\* the first were merged.
C18_Witness ==
    /\ SerialFailure
    /\ pc = "aborted"
    /\ failed = 2
    /\ Len(tasks) >= 3
    /\ merged # {}

\* ---------------------------------------------------------------------
\* Loading several reuse directories
\* ---------------------------------------------------------------------
\* C19: while the reuse directories are loaded one after another, a cell
\* of the ResultMatrix that holds a non-NaN value still holds a non-NaN
\* value after the next directory is loaded.
C19_ComputedCellsGrow ==
    [][(pc = "reuse" /\ pc' = "reuse") =>
          \A k \in DOMAIN result_df.v :
              result_df.v[k] # NaN => result_df'.v[k] # NaN]_vars

\* ---------------------------------------------------------------------
\* Task packing is a partition of the work items
\* ---------------------------------------------------------------------
\* The places (task, position) where the work item numbered n is packed.
PlacesOf(n) ==
    { tj \in UNION { {t} \X DOMAIN tasks[t] : t \in DOMAIN tasks } :
          tasks[tj[1]][tj[2]].work_item_num = n }

\* C20: after packing every work item is in exactly one task, every task
\* holds at least one work item, and every work item carries its position
\* in the unsorted list work_items as work_item_num, so that
\* work_items[work_item_num] is the packed work item itself.
C20_PackingPartitions ==
    pc = "merge" =>
        /\ \A i \in DOMAIN work_items :
              /\ work_items[i].work_item_num = i - 1
              /\ Cardinality(PlacesOf(i - 1)) = 1
        /\ \A t \in DOMAIN tasks :
              /\ Len(tasks[t]) >= 1
              /\ \A j \in DOMAIN tasks[t] :
                    /\ tasks[t][j].work_item_num + 1 \in DOMAIN work_items
                    /\ work_items[tasks[t][j].work_item_num + 1] = tasks[t][j]

\* A packing into several tasks in which the sort moved the work items
\* (the first packed item is not work item 0), two of them have the same
\* length and some task combines several.
C20_Witness ==
    /\ pc = "merge"
    /\ Len(tasks) >= 2
    /\ tasks[1][1].work_item_num # 0
    /\ \E t \in DOMAIN tasks : Len(tasks[t]) >= 2
    /\ \E i, j \in DOMAIN work_items :
          i < j /\ Len(work_items[i].peptides) = Len(work_items[j].peptides)

====
